---------------------------- MODULE Spec2Model ----------------------------
(***************************************************************************)
(* digit_recognition: the binary dataset decoder.                          *)
(*                                                                         *)
(* Two byte sources (images, labels) are read by                           *)
(* TrainingDataset::from_readers and then pulled record by record through  *)
(* TrainingDataset::next, which drives one DataIter per source.            *)
(* A byte source is a std::io::Read: a byte string with a cursor, whose    *)
(* read may also fail with an I/O error the environment injects.           *)
(***************************************************************************)
EXTENDS Integers, Sequences, FiniteSets, TLC

(***************************************************************************)
(* Bounds of the model.                                                    *)
(***************************************************************************)
MaxCount  == 2      \* largest item count a header declares
MaxDim    == 2      \* largest image width / height written to a stream
MaxFaults == 1      \* I/O errors the environment injects in one run
MaxPulls  == 4      \* pulls on the dataset in one run
MaxPartial == 1     \* bytes a failing read may have consumed
MaxLayers == 2      \* layers of a network written to a file by hand
MaxSeeds == 1       \* streams of the random number generator
MaxTrain == 2       \* calls of train

(***************************************************************************)
(* Program constants.                                                      *)
(***************************************************************************)
MAGIC      == 2049      \* u32::from_be_bytes([0x00, 0x00, 0x08, 0x01])

\* Magic numbers a file may start with: 0x00000801, 0x00000803 (the image
\* file of the dataset binary format) and 0x00000804 (neither).
IMAGES_MAGIC == MAGIC + 2
LABELS_MAGIC == MAGIC + 0
OTHER_MAGIC  == MAGIC + 3
Magics == {LABELS_MAGIC, IMAGES_MAGIC, OTHER_MAGIC}

\* Longest file of the model: magic, count, shared size, MaxCount records of
\* 8 + MaxDim * MaxDim bytes, and a partial record of 3 bytes.
MaxFileLen == 16 + MaxCount * (8 + MaxDim * MaxDim) + 3

\* usize is 64 bits wide: the product of two u32 values never wraps.  The
\* model's integers are narrower, so every product beyond the length of the
\* longest file is represented by one value beyond that length.
HUGE == MaxFileLen + 1

Min(a, b) == IF a < b THEN a ELSE b

(***************************************************************************)
(* Big-endian u32 <-> 4 bytes.                                             *)
(***************************************************************************)
to_be_bytes(v) ==
    << (v \div 16777216) % 256, (v \div 65536) % 256, (v \div 256) % 256, v % 256 >>

from_be_bytes(b) == ((b[1] * 256 + b[2]) * 256 + b[3]) * 256 + b[4]

(***************************************************************************)
(* std::io::Read.  A source is [bytes, pos]; pos bytes have been consumed. *)
(* fault = -1: the environment lets the read through; fault = k >= 0: the  *)
(* read fails with an I/O error after k bytes were consumed.               *)
(***************************************************************************)
NoFault == -1

Remaining(src) == Len(src.bytes) - src.pos

read_exact(src, n, fault) ==
    IF fault # NoFault
    THEN [ok |-> FALSE, err |-> "Other", data |-> << >>,
          src |-> [src EXCEPT !.pos = @ + Min(fault, Min(n, Remaining(src)))]]
    ELSE IF n > Remaining(src)
    THEN [ok |-> FALSE, err |-> "UnexpectedEof", data |-> << >>,
          src |-> [src EXCEPT !.pos = Len(src.bytes)]]
    ELSE [ok |-> TRUE, err |-> "", data |-> SubSeq(src.bytes, src.pos + 1, src.pos + n),
          src |-> [src EXCEPT !.pos = @ + n]]

\* typed_io::TypedRead::read_be::<u32>: 4 bytes, big-endian
be_u32(r) ==
    [ok |-> r.ok, err |-> r.err, src |-> r.src,
     value |-> IF r.ok THEN from_be_bytes(r.data) ELSE 0]

read_be(src, fault) == be_u32(read_exact(src, 4, fault))

\* typed_io::TypedRead::read_ne::<u8>: 1 byte
ne_u8(r) ==
    [ok |-> r.ok, err |-> r.err, src |-> r.src,
     value |-> IF r.ok THEN r.data[1] ELSE 0]

read_ne(src, fault) == ne_u8(read_exact(src, 1, fault))

\* The environment's plan for one decode: no fault (at = 0), or an I/O error
\* at the at-th read of the decode after k bytes of it were consumed.
FaultAt(f, i) == IF f.at = i THEN f.k ELSE NoFault
NoPlan == [at |-> 0, k |-> 0]
FaultPlans(reads) == {NoPlan} \cup [at : 1 .. reads, k : 0 .. MaxPartial]
Injected(f) == IF f.at = 0 THEN 0 ELSE 1

(***************************************************************************)
(* data.rs                                                                 *)
(***************************************************************************)
ImageSize_area(size) ==
    IF size.width = 0 \/ size.height = 0 THEN 0
    ELSE IF size.width > HUGE \div size.height THEN HUGE
    ELSE size.width * size.height

\* ImageSize::default (derived): both dimensions are zero
ImageSize_default == [width |-> 0, height |-> 0]

\* Image::builder
Image_builder == [size |-> ImageSize_default, pixels |-> << >>]

\* ImageBuilder::with_size
with_size(self, size) == [self EXCEPT !.size = size]

\* ImageBuilder::with_pixels_row_major
with_pixels_row_major(self, pixels) == [self EXCEPT !.pixels = pixels]

\* Faulty variant: a buffer longer than the area is accepted.
ImageBuilder_build_at_least(size, pixels) ==
    IF Len(pixels) < ImageSize_area(size)
    THEN [panic |-> TRUE, size |-> size, pixels |-> << >>]
    ELSE [panic |-> FALSE, size |-> size, pixels |-> pixels]

\* ImageBuilder::build: panics unless pixels.len() == size.area()
ImageBuilder_build(size, pixels) ==
    IF Len(pixels) # ImageSize_area(size)
    THEN [panic |-> TRUE, size |-> size, pixels |-> << >>]
    ELSE [panic |-> FALSE, size |-> size, pixels |-> pixels]

(***************************************************************************)
(* training_data.rs: the record decoders.  A decode returns                *)
(* [ok, err, value, src]: Ok(value) or Err(err), and the source after it.  *)
(***************************************************************************)
Err(r) == [ok |-> FALSE, err |-> r.err, value |-> << >>, src |-> r.src]
Ok(value, src) == [ok |-> TRUE, err |-> "", value |-> value, src |-> src]

\* impl ReadFromBytes for Image: from `let mut pixels` on, size read
Image_read_pixels(size, p) ==
    IF ~p.ok THEN Err(p) ELSE Ok(ImageBuilder_build(size, p.data), p.src)

\* impl ReadFromBytes for Image: from `let height` on, width read
Image_read_height(w, h, f) ==
    IF ~h.ok THEN Err(h)
    ELSE Image_read_pixels([width |-> w.value, height |-> h.value],
             read_exact(h.src, ImageSize_area([width |-> w.value, height |-> h.value]),
                        FaultAt(f, 3)))

\* Faulty variant: the height is not read, the image is taken to be square.
Image_read_width_square(w, f) ==
    IF ~w.ok THEN Err(w) ELSE Image_read_height(w, w, f)

\* impl ReadFromBytes for Image: after `let width`
Image_read_width(w, f) ==
    IF ~w.ok THEN Err(w) ELSE Image_read_height(w, read_be(w.src, FaultAt(f, 2)), f)

\* impl ReadFromBytes for Image
Image_read_from_bytes(input, f) == Image_read_width(read_be(input, FaultAt(f, 1)), f)

\* Faulty variant: the byte is reduced to a decimal digit.
Label_new_digit(d) == IF ~d.ok THEN Err(d) ELSE Ok([digit |-> d.value % 10], d.src)

\* impl ReadFromBytes for Label: after `let digit`
Label_new(d) == IF ~d.ok THEN Err(d) ELSE Ok([digit |-> d.value], d.src)

\* impl ReadFromBytes for Label
Label_read_from_bytes(input, f) == Label_new(read_ne(input, FaultAt(f, 1)))

(***************************************************************************)
(* io_ext.rs                                                               *)
(***************************************************************************)
\* impl<R: Read> ReadData for R
read_data(input, T, f) ==
    IF T = "Image" THEN Image_read_from_bytes(input, f)
    ELSE Label_read_from_bytes(input, f)

\* Faulty variant: the predicate lets every item through.
stop_on_io_error_never(item) == TRUE

stop_on_io_error(item) == item.ok

\* DataIter::next, given the decoded item: opt is "None" or "Some"
DataIter_yield(item) ==
    IF ~stop_on_io_error(item)
    THEN [opt |-> "None", item |-> item, input |-> item.src]
    ELSE [opt |-> "Some", item |-> item, input |-> item.src]

\* DataIter::next
DataIter_next(input, T, f) == DataIter_yield(read_data(input, T, f))

(***************************************************************************)
(* training_data.rs: the dataset loader.                                   *)
(***************************************************************************)
IoError(r) == [tag |-> "IO", kind |-> r.err]

\* verify_magic, after `let magic`
verify_magic_value(magic, data_kind) ==
    IF ~magic.ok THEN [ok |-> FALSE, err |-> IoError(magic), src |-> magic.src]
    ELSE IF magic.value = MAGIC THEN [ok |-> TRUE, err |-> << >>, src |-> magic.src]
    ELSE [ok |-> FALSE, src |-> magic.src,
          err |-> [tag |-> "MagicNotFound", magic |-> magic.value,
                   dataset_kind |-> data_kind]]

verify_magic(input, data_kind, fault) ==
    verify_magic_value(read_be(input, fault), data_kind)

\* try_from, after `let image_count` / `let label_count`
try_from_count(count) ==
    IF ~count.ok THEN [ok |-> FALSE, err |-> IoError(count), count |-> 0, src |-> count.src]
    ELSE [ok |-> TRUE, err |-> << >>, count |-> count.value, src |-> count.src]

\* try_from, after verify_magic
try_from_magic(m, f) ==
    IF ~m.ok THEN [ok |-> FALSE, err |-> m.err, count |-> 0, src |-> m.src]
    ELSE try_from_count(read_be(m.src, FaultAt(f, 2)))

\* TrainingImageSet::try_from
TrainingImageSet_try_from(input, f) ==
    try_from_magic(verify_magic(input, "Image", FaultAt(f, 1)), f)

\* Faulty variant: the magic of the label file is read and not compared.
TrainingLabelSet_try_from_unverified(input, f) ==
    try_from_count(read_be(read_be(input, FaultAt(f, 1)).src, FaultAt(f, 2)))

\* TrainingLabelSet::try_from
TrainingLabelSet_try_from(input, f) ==
    try_from_magic(verify_magic(input, "Label", FaultAt(f, 1)), f)

NoDataset == [image_count |-> 0, label_count |-> 0, read |-> 0]

\* TrainingDataset::new
TrainingDataset_new(image_count, label_count) ==
    [image_count |-> image_count, label_count |-> label_count, read |-> 0]

\* Faulty variant: the two counts change places in InvalidLabelCount.
from_readers_counts_swapped(i, l) ==
    IF ~l.ok
    THEN [result |-> l.err, dataset |-> NoDataset, images |-> i.src, labels |-> l.src]
    ELSE IF i.count # l.count
    THEN [result |-> [tag |-> "InvalidLabelCount",
                      sample_count |-> l.count, label_count |-> i.count],
          dataset |-> NoDataset, images |-> i.src, labels |-> l.src]
    ELSE [result |-> [tag |-> "Ok"],
          dataset |-> TrainingDataset_new(i.count, l.count),
          images |-> i.src, labels |-> l.src]

\* TrainingDataset::from_readers, from the comparison of the counts on
from_readers_counts(i, l) ==
    IF ~l.ok
    THEN [result |-> l.err, dataset |-> NoDataset, images |-> i.src, labels |-> l.src]
    ELSE IF i.count # l.count
    THEN [result |-> [tag |-> "InvalidLabelCount",
                      sample_count |-> i.count, label_count |-> l.count],
          dataset |-> NoDataset, images |-> i.src, labels |-> l.src]
    ELSE [result |-> [tag |-> "Ok"],
          dataset |-> TrainingDataset_new(i.count, l.count),
          images |-> i.src, labels |-> l.src]

\* TrainingDataset::from_readers, after TrainingImageSet::try_from
from_readers_images(i, lbls, fl) ==
    IF ~i.ok
    THEN [result |-> i.err, dataset |-> NoDataset, images |-> i.src, labels |-> lbls]
    ELSE from_readers_counts(i, TrainingLabelSet_try_from(lbls, fl))

\* TrainingDataset::from_readers
from_readers(imgs, lbls, fi, fl) ==
    from_readers_images(TrainingImageSet_try_from(imgs, fi), lbls, fl)

\* Faulty variant: the dataset is one item longer than declared.
len_plus_one(ds) == ds.image_count + 1

\* TrainingDataset::len
len(ds) == ds.image_count

NoPull == [opt |-> "-"]

\* Faulty variant: a yielded item is not counted.
next_label_uncounted(ds, i, l) ==
    IF l.opt = "None"
    THEN [opt |-> "None", ok |-> FALSE, i |-> i, l |-> l,
          images |-> i.input, labels |-> l.input, read |-> ds.read]
    ELSE [opt |-> "Some", ok |-> l.item.ok, i |-> i, l |-> l,
          images |-> i.input, labels |-> l.input, read |-> ds.read]

\* TrainingDataset::next, after the pull on the label DataIter.  i and l are
\* what the two DataIter pulls returned (NoPull when the pull is not made).
next_label(ds, i, l) ==
    IF l.opt = "None"
    THEN [opt |-> "None", ok |-> FALSE, i |-> i, l |-> l,
          images |-> i.input, labels |-> l.input, read |-> ds.read]
    ELSE IF ~l.item.ok
    THEN [opt |-> "Some", ok |-> FALSE, i |-> i, l |-> l,
          images |-> i.input, labels |-> l.input, read |-> ds.read]
    ELSE [opt |-> "Some", ok |-> TRUE, i |-> i, l |-> l,
          images |-> i.input, labels |-> l.input, read |-> ds.read + 1]

\* Faulty variant: a pull that ends the sequence is counted as an item.
next_image_counts_end(ds, i, lbls, fl) ==
    IF i.opt = "None"
    THEN [opt |-> "None", ok |-> FALSE, i |-> i, l |-> NoPull,
          images |-> i.input, labels |-> lbls, read |-> ds.read + 1]
    ELSE IF ~i.item.ok
    THEN [opt |-> "Some", ok |-> FALSE, i |-> i, l |-> NoPull,
          images |-> i.input, labels |-> lbls, read |-> ds.read]
    ELSE next_label(ds, i, DataIter_next(lbls, "Label", fl))

\* TrainingDataset::next, after the pull on the image DataIter
next_image(ds, i, lbls, fl) ==
    IF i.opt = "None"
    THEN [opt |-> "None", ok |-> FALSE, i |-> i, l |-> NoPull,
          images |-> i.input, labels |-> lbls, read |-> ds.read]
    ELSE IF ~i.item.ok
    THEN [opt |-> "Some", ok |-> FALSE, i |-> i, l |-> NoPull,
          images |-> i.input, labels |-> lbls, read |-> ds.read]
    ELSE next_label(ds, i, DataIter_next(lbls, "Label", fl))

\* TrainingDataset::next
TrainingDataset_next(ds, imgs, lbls, fi, fl) ==
    IF ds.read < len(ds)
    THEN next_image(ds, DataIter_next(imgs, "Image", fi), lbls, fl)
    ELSE [opt |-> "None", ok |-> FALSE, i |-> NoPull, l |-> NoPull,
          images |-> imgs, labels |-> lbls, read |-> ds.read]

(***************************************************************************)
(* f64.  A value is an integer count of thousandths, finite up to          *)
(* F64_MAX; beyond it stand the three values every IEEE 754 operation may  *)
(* produce: +infinity, -infinity and NaN.  Operations round toward zero    *)
(* and overflow to an infinity.                                            *)
(***************************************************************************)
UNIT    == 1000
F64_MAX == 2000000
INF     == F64_MAX + 1
NEG_INF == 0 - INF
NAN     == F64_MAX + 2

is_nan(a) == a = NAN
is_infinite(a) == a = INF \/ a = NEG_INF
is_finite(a) == ~is_nan(a) /\ ~is_infinite(a)

Abs(a) == IF a < 0 THEN 0 - a ELSE a
Sign(a) == IF a < 0 THEN -1 ELSE 1

\* an exact result rounded into the finite range or to an infinity
Overflow(v) == IF v > F64_MAX THEN INF ELSE IF v < 0 - F64_MAX THEN NEG_INF ELSE v

FNeg(a) == IF is_nan(a) THEN NAN ELSE 0 - a

FAdd(a, b) ==
    IF is_nan(a) \/ is_nan(b) THEN NAN
    ELSE IF is_infinite(a) THEN (IF is_infinite(b) /\ a # b THEN NAN ELSE a)
    ELSE IF is_infinite(b) THEN b
    ELSE Overflow(a + b)

FSub(a, b) == FAdd(a, FNeg(b))

FMul(a, b) ==
    IF is_nan(a) \/ is_nan(b) THEN NAN
    ELSE IF a = 0 \/ b = 0 THEN (IF is_infinite(a) \/ is_infinite(b) THEN NAN ELSE 0)
    ELSE IF is_infinite(a) \/ is_infinite(b) THEN Sign(a) * Sign(b) * INF
    ELSE IF Abs(a) > (INF * UNIT - 1) \div Abs(b) THEN Sign(a) * Sign(b) * INF
    ELSE Sign(a) * Sign(b) * ((Abs(a) * Abs(b)) \div UNIT)

FDiv(a, b) ==
    IF is_nan(a) \/ is_nan(b) THEN NAN
    ELSE IF is_infinite(a) THEN (IF is_infinite(b) THEN NAN ELSE Sign(a) * Sign(b) * INF)
    ELSE IF is_infinite(b) THEN 0
    ELSE IF b = 0 THEN (IF a = 0 THEN NAN ELSE Sign(a) * INF)
    ELSE IF Abs(a) > F64_MAX \div UNIT
         THEN Overflow(Sign(a) * Sign(b) * ((Abs(a) \div Abs(b)) * UNIT
                                            + ((Abs(a) % Abs(b)) * UNIT) \div Abs(b)))
    ELSE Sign(a) * Sign(b) * ((Abs(a) * UNIT) \div Abs(b))

\* f64::max: a NaN operand is ignored
FMax(a, b) == IF is_nan(a) THEN b ELSE IF is_nan(b) THEN a ELSE IF a > b THEN a ELSE b

\* e^(-k/2) for k = 0, 1, ..; it rounds to zero from k = 16 on
EXP_HALVES == <<1000, 607, 368, 223, 135, 82, 50, 30, 18, 11, 7, 4, 2, 2, 1, 1>>

\* e^(-f) for 0 <= f < 1/2, by its Taylor polynomial of degree 4
ExpFraction(f) ==
    UNIT - f + (f * f) \div 2000 - (f * f * f) \div 6000000
         + (((f * f) \div UNIT) * ((f * f) \div UNIT)) \div 24000

\* e^(-t) for finite t >= 0
ExpNeg(t) ==
    IF t \div 500 >= Len(EXP_HALVES) THEN 0
    ELSE (EXP_HALVES[t \div 500 + 1] * ExpFraction(t % 500)) \div UNIT

\* E.powf(x)
FExp(x) ==
    IF is_nan(x) THEN NAN
    ELSE IF x = INF THEN INF
    ELSE IF x = NEG_INF THEN 0
    ELSE IF x <= 0 THEN ExpNeg(0 - x)
    ELSE FDiv(UNIT, ExpNeg(x))

\* The sum of a vector, added up from the first entry to the last (a NaN
\* partial sum stays NaN).  The recursion is cut in runs of SumRun entries.
SumRun == 32

RECURSIVE SumTo(_, _, _, _)
SumTo(s, lo, hi, acc) ==
    IF is_nan(acc) THEN NAN
    ELSE IF lo > hi THEN acc
    ELSE SumTo(s, lo + 1, hi, FAdd(acc, s[lo]))

RECURSIVE SumFrom(_, _, _)
SumFrom(s, lo, acc) ==
    IF lo > Len(s) THEN acc
    ELSE SumFrom(s, lo + SumRun, SumTo(s, lo, Min(lo + SumRun - 1, Len(s)), acc))

\* DVector::sum
sum(v) == SumFrom(v, 1, 0)

RECURSIVE MaxTo(_, _, _)
MaxTo(s, lo, acc) == IF lo > Len(s) THEN acc ELSE MaxTo(s, lo + 1, FMax(acc, s[lo]))

\* DVector::max
max(v) == MaxTo(v, 2, v[1])

(***************************************************************************)
(* network.rs.  A DVector is a sequence of f64; a DMatrix is               *)
(* [nrows, ncols, data] with data in column-major order.                   *)
(***************************************************************************)
INPUT_LAYER_SIZE  == 28 * 28
OUTPUT_LAYER_SIZE == 10
HIDDEN_LAYER_SIZE == 20
LEARNING_RATE     == 100     \* 0.1

At(m, i, j) == m.data[(j - 1) * m.nrows + i]

\* Matrix::mul_to on a column vector of m.ncols entries
mul_to(m, x) ==
    [i \in 1 .. m.nrows |-> sum([j \in 1 .. m.ncols |-> FMul(At(m, i, j), x[j])])]

\* Matrix::tr_mul_to on a column vector of m.nrows entries
tr_mul_to(m, x) ==
    [j \in 1 .. m.ncols |-> sum([i \in 1 .. m.nrows |-> FMul(At(m, i, j), x[i])])]

\* component_mul_assign, and += and -= of two vectors of one length
component_mul(a, b) == [k \in 1 .. Len(a) |-> FMul(a[k], b[k])]
add_assign(a, b) == [k \in 1 .. Len(a) |-> FAdd(a[k], b[k])]
sub_assign(a, b) == [k \in 1 .. Len(a) |-> FSub(a[k], b[k])]

\* relu (the logistic function)
relu(x) == FDiv(UNIT, FAdd(UNIT, FExp(FNeg(x))))

\* relu_prime, after `let val`
relu_prime_val(val) == FMul(val, FSub(UNIT, val))

relu_prime(x) == relu_prime_val(relu(x))

\* softmax: from `let exp_sum` on
softmax_div(vec, exp_sum) == [k \in 1 .. Len(vec) |-> FDiv(vec[k], exp_sum)]

\* Faulty variant: the entries are divided by the largest of them.
softmax_sum_by_max(vec) == softmax_div(vec, max(vec))

softmax_sum(vec) == softmax_div(vec, sum(vec))

\* softmax: vec.apply(|x| *x = E.powf(*x-mx))
softmax_exp(vec, mx) == [k \in 1 .. Len(vec) |-> FExp(FSub(vec[k], mx))]

softmax(vec) == softmax_sum(softmax_exp(vec, max(vec)))

\* softmax_prime: result.apply(|x| *x = *x*(1.0-*x))
softmax_prime_apply(result) == [k \in 1 .. Len(result) |-> FMul(result[k], FSub(UNIT, result[k]))]

softmax_prime(vec) == softmax_prime_apply(softmax(vec))

\* Layer::dim
dim(layer) == Len(layer.biases)

\* The random number generator: the n-th draw of the stream `seed`.
Draw(seed, n) == (n * (2 * seed + 1) + seed * seed) % 7

\* A draw of Normal(0, 0.1), and a draw of Bernoulli(0.5)
NORMAL == <<-200, -100, -30, 0, 30, 100, 200>>
sample_normal(seed, n) == NORMAL[Draw(seed, n) + 1]
sample_bernoulli(seed, n) == Draw(seed, n) % 2 = 1

\* Layer::new_untrained, with the generator at its n-th draw: dim * prev_dim
\* draws fill the weights, two draws make each bias.
Layer_new_untrained(seed, n, prev_dim, dim_) ==
    [weights |-> [nrows |-> dim_, ncols |-> prev_dim,
                  data |-> [k \in 1 .. dim_ * prev_dim |-> sample_normal(seed, n + k)]],
     biases |-> [k \in 1 .. dim_ |->
                   IF sample_bernoulli(seed, n + dim_ * prev_dim + 2 * k)
                   THEN FNeg(sample_normal(seed, n + dim_ * prev_dim + 2 * k - 1))
                   ELSE sample_normal(seed, n + dim_ * prev_dim + 2 * k - 1)]]

\* NeuralNetwork::new_untrained
new_untrained(seed) ==
    [layers |-> << Layer_new_untrained(seed, 0, INPUT_LAYER_SIZE, HIDDEN_LAYER_SIZE),
                   Layer_new_untrained(seed, HIDDEN_LAYER_SIZE * INPUT_LAYER_SIZE
                                             + 2 * HIDDEN_LAYER_SIZE,
                                       HIDDEN_LAYER_SIZE, OUTPUT_LAYER_SIZE) >>]

\* A NetworkResult, with panic (the call aborted) and at (where it aborted),
\* evaluated (the layers evaluated so far) and logits (result before softmax).
NetworkResult(input) ==
    [panic |-> FALSE, at |-> "-", evaluated |-> 0, result |-> input, logits |-> << >>,
     activations |-> << >>, derivatives |-> << >>]

\* compute_ex: the loop body for a layer with i != 1, after `tmp += ..`
compute_ex_hidden(res, tmp, activation) ==
    [res EXCEPT !.derivatives = Append(@, [k \in 1 .. Len(tmp) |-> relu_prime(tmp[k])]),
                !.activations = Append(@, activation),
                !.result = activation,
                !.evaluated = @ + 1]

\* compute_ex: the loop body, after `tmp += &layer.biases`
compute_ex_tmp(i, res, tmp) ==
    IF i # 1
    THEN compute_ex_hidden(res, tmp, [k \in 1 .. Len(tmp) |-> relu(tmp[k])])
    ELSE [res EXCEPT !.result = tmp, !.evaluated = @ + 1]

\* compute_ex: the loop body for layer i (from 0); mul_to panics unless the
\* weights have as many columns as the vector has entries and as many rows as
\* tmp, which has layer.dim() entries.
compute_ex_layer(layer, i, res) ==
    IF layer.weights.ncols # Len(res.result) \/ layer.weights.nrows # dim(layer)
    THEN [res EXCEPT !.panic = TRUE, !.at = "mul_to"]
    ELSE compute_ex_tmp(i, res, add_assign(mul_to(layer.weights, res.result), layer.biases))

RECURSIVE compute_ex_layers(_, _, _)
compute_ex_layers(layers, i, res) ==
    IF res.panic \/ i >= Len(layers) THEN res
    ELSE compute_ex_layers(layers, i + 1, compute_ex_layer(layers[i + 1], i, res))

\* compute_ex: after the loop
compute_ex_softmax(res) ==
    IF res.panic THEN res
    ELSE [res EXCEPT !.logits = res.result,
                     !.derivatives = Append(@, softmax_prime(res.result)),
                     !.result = softmax(res.result)]

\* Faulty variant: the length of the input is not checked.
compute_ex_unchecked(self, input) ==
    compute_ex_softmax(compute_ex_layers(self.layers, 0,
        [NetworkResult(input) EXCEPT !.activations = <<input>>]))

\* NeuralNetwork::compute_ex
compute_ex(self, input) ==
    IF Len(input) # INPUT_LAYER_SIZE
    THEN [NetworkResult(input) EXCEPT !.panic = TRUE, !.at = "input"]
    ELSE compute_ex_softmax(compute_ex_layers(self.layers, 0,
             [NetworkResult(input) EXCEPT !.activations = <<input>>]))

\* What train does: at is where it aborted ("-" when it returned), layers
\* are the layers it leaves in self, result is what compute_ex returned.
Trained(at, layers, result, local_gradients) ==
    [panic |-> at # "-", at |-> at, layers |-> layers, evaluated |-> result.evaluated,
     result |-> result.result, derivatives |-> result.derivatives,
     local_gradients |-> local_gradients]

\* Faulty variant: the update of weights and biases that follows
\* local_gradients.reverse() in the source is carried out.
train_update_applied(self, result, local_gradients) ==
    [i \in 1 .. Len(self.layers) |->
        [weights |-> [self.layers[i].weights EXCEPT !.data =
                        [n \in 1 .. Len(@) |->
                            FSub(@[n], FMul(LEARNING_RATE,
                                FMul(result.activations[i][((n - 1) \div self.layers[i].weights.nrows) + 1],
                                     local_gradients[i][((n - 1) % self.layers[i].weights.nrows) + 1])))]],
         biases |-> sub_assign(self.layers[i].biases,
                               [k \in 1 .. Len(local_gradients[i]) |->
                                   FMul(local_gradients[i][k], LEARNING_RATE)])]]

\* train: the layers after local_gradients.reverse()
train_update(self, result, local_gradients) == self.layers

\* train: after local_gradients.reverse()
train_reversed(self, result, local_gradients) ==
    Trained("-", train_update(self, result, local_gradients), result, local_gradients)

\* train: the loop body for i = 0, after the loop over the biases
train_hidden_mul(self, result, prev_gradient, local_gradient) ==
    IF Len(local_gradient) # Len(result.derivatives[1])
    THEN Trained("component_mul_assign", self.layers, result, << >>)
    ELSE train_reversed(self, result,
             <<component_mul(local_gradient, result.derivatives[1]), prev_gradient>>)

\* train: the loop body for i = 0, after tr_mul_to; the loop over the biases
\* of layers[i+1] adds the j-th bias to local_gradient[j]
train_hidden_biases(self, result, prev_gradient, local_gradient) ==
    IF Len(self.layers[2].biases) > Len(local_gradient)
    THEN Trained("local_gradient[j]", self.layers, result, << >>)
    ELSE train_hidden_mul(self, result, prev_gradient,
             [j \in 1 .. Len(local_gradient) |->
                 IF j <= Len(self.layers[2].biases)
                 THEN FAdd(local_gradient[j], self.layers[2].biases[j])
                 ELSE local_gradient[j]])

\* train: the loop body for i = 0
train_hidden(self, result, prev_gradient) ==
    IF Len(self.layers) < 2 THEN Trained("layers[i+1]", self.layers, result, << >>)
    ELSE IF self.layers[2].weights.nrows # Len(prev_gradient)
    THEN Trained("tr_mul_to", self.layers, result, << >>)
    ELSE train_hidden_biases(self, result, prev_gradient,
                             tr_mul_to(self.layers[2].weights, prev_gradient))

\* train: after `let result`
train_result(self, target, result) ==
    IF result.panic THEN Trained(result.at, self.layers, result, << >>)
    ELSE IF Len(result.result) # Len(target)
    THEN Trained("-= target", self.layers, result, << >>)
    ELSE IF Len(result.derivatives) < 2
    THEN Trained("derivatives[1]", self.layers, result, << >>)
    ELSE IF Len(result.derivatives[2]) # Len(result.result)
    THEN Trained("component_mul_assign", self.layers, result, << >>)
    ELSE train_hidden(self, result,
             component_mul(sub_assign(result.result, target), result.derivatives[2]))

\* NeuralNetwork::train.  cross_entropy_loss is computed from result.result
\* and target and printed; nothing later in train reads it.
train(self, input, target) == train_result(self, target, compute_ex(self, input))

(***************************************************************************)
(* serde_json.  A document is a sequence of characters.  The writer's      *)
(* line breaks and indentation, which the reader skips, are left out; the  *)
(* reader accepts the members of an object in the order the writer emits.  *)
(***************************************************************************)
DIGITS == <<"0", "1", "2", "3", "4", "5", "6", "7", "8", "9">>
KEY_LAYERS  == <<"\"", "l", "a", "y", "e", "r", "s", "\"", ":">>
KEY_WEIGHTS == <<"\"", "w", "e", "i", "g", "h", "t", "s", "\"", ":">>
KEY_BIASES  == <<"\"", "b", "i", "a", "s", "e", "s", "\"", ":">>
NULL == <<"n", "u", "l", "l">>

\* a usize in decimal
RECURSIVE format_usize(_)
format_usize(n) ==
    IF n < 10 THEN <<DIGITS[n + 1]>> ELSE format_usize(n \div 10) \o <<DIGITS[(n % 10) + 1]>>

\* the digits after the decimal point of f thousandths, 0 <= f < 1000:
\* the shortest that read back as f
format_fraction(f) ==
    IF f % 100 = 0 THEN <<DIGITS[(f \div 100) + 1]>>
    ELSE IF f % 10 = 0 THEN <<DIGITS[(f \div 100) + 1], DIGITS[((f \div 10) % 10) + 1]>>
    ELSE <<DIGITS[(f \div 100) + 1], DIGITS[((f \div 10) % 10) + 1], DIGITS[(f % 10) + 1]>>

\* an f64: a number with a decimal point, or null when it is not finite
format_f64(v) ==
    IF ~is_finite(v) THEN NULL
    ELSE (IF v < 0 THEN <<"-">> ELSE << >>)
         \o format_usize(Abs(v) \div UNIT) \o <<".">> \o format_fraction(Abs(v) % UNIT)

\* a sequence of f64 as an array
RECURSIVE format_f64_items(_, _)
format_f64_items(data, k) ==
    IF k > Len(data) THEN << >>
    ELSE (IF k > 1 THEN <<",">> ELSE << >>) \o format_f64(data[k]) \o format_f64_items(data, k + 1)

format_f64_array(data) == <<"[">> \o format_f64_items(data, 1) \o <<"]">>

\* a DMatrix: its data, its row count and its column count
to_json_matrix(m) ==
    <<"[">> \o format_f64_array(m.data) \o <<",">> \o format_usize(m.nrows)
            \o <<",">> \o format_usize(m.ncols) \o <<"]">>

\* a DVector: its data, its row count and null for its one column
to_json_vector(v) ==
    <<"[">> \o format_f64_array(v) \o <<",">> \o format_usize(Len(v))
            \o <<",">> \o NULL \o <<"]">>

\* Layer (derive Serialize)
to_json_layer(layer) ==
    <<"{">> \o KEY_WEIGHTS \o to_json_matrix(layer.weights) \o <<",">>
            \o KEY_BIASES \o to_json_vector(layer.biases) \o <<"}">>

RECURSIVE to_json_layers(_, _)
to_json_layers(layers, k) ==
    IF k > Len(layers) THEN << >>
    ELSE (IF k > 1 THEN <<",">> ELSE << >>) \o to_json_layer(layers[k]) \o to_json_layers(layers, k + 1)

\* NeuralNetwork (derive Serialize)
to_json(self) ==
    <<"{">> \o KEY_LAYERS \o <<"[">> \o to_json_layers(self.layers, 1) \o <<"]">> \o <<"}">>

\* The reader.  A step takes the document and the result of the step before
\* it, [ok, pos, value]: pos is the next character to read.
Fail == [ok |-> FALSE, pos |-> 0, value |-> << >>]
Start == [ok |-> TRUE, pos |-> 1, value |-> << >>]
Read(pos, value) == [ok |-> TRUE, pos |-> pos, value |-> value]

Peek(s, p) == IF p <= Len(s) THEN s[p] ELSE "EOF"

expect(s, r, lit) ==
    IF r.ok /\ r.pos + Len(lit) - 1 <= Len(s) /\ SubSeq(s, r.pos, r.pos + Len(lit) - 1) = lit
    THEN [r EXCEPT !.pos = @ + Len(lit)]
    ELSE Fail

is_digit(c) == \E d \in 1 .. 10 : DIGITS[d] = c
digit_value(c) == (CHOOSE d \in 1 .. 10 : DIGITS[d] = c) - 1

\* the position after the digits that start at p
RECURSIVE digits_end(_, _)
digits_end(s, p) == IF is_digit(Peek(s, p)) THEN digits_end(s, p + 1) ELSE p

\* the value of the digits from lo to hi
RECURSIVE digits_value(_, _, _)
digits_value(s, lo, hi) ==
    IF lo > hi THEN 0 ELSE digits_value(s, lo, hi - 1) * 10 + digit_value(s[hi])

parse_usize_digits(s, r, end) ==
    IF end = r.pos THEN Fail ELSE Read(end, digits_value(s, r.pos, end - 1))

parse_usize(s, r) == IF ~r.ok THEN Fail ELSE parse_usize_digits(s, r, digits_end(s, r.pos))

\* the digits from..end-1 after a decimal point, in thousandths
fraction_value(s, from, end) ==
    IF end - from = 1 THEN digits_value(s, from, from) * 100
    ELSE IF end - from = 2 THEN digits_value(s, from, from + 1) * 10
    ELSE digits_value(s, from, from + 2)

parse_f64_fraction(s, sign, int, from, end) ==
    IF end = from THEN Fail
    ELSE Read(end, sign * (int * UNIT + fraction_value(s, from, end)))

\* a number of more than 4 digits before the point is out of range
parse_f64_integer(s, sign, from, end) ==
    IF end = from THEN Fail
    ELSE IF end - from > 4 THEN Fail
    ELSE IF Peek(s, end) = "."
    THEN parse_f64_fraction(s, sign, digits_value(s, from, end - 1), end + 1,
                            digits_end(s, end + 1))
    ELSE Read(end, sign * digits_value(s, from, end - 1) * UNIT)

parse_f64(s, r) ==
    IF ~r.ok THEN Fail
    ELSE IF Peek(s, r.pos) = "-"
    THEN parse_f64_integer(s, -1, r.pos + 1, digits_end(s, r.pos + 1))
    ELSE parse_f64_integer(s, 1, r.pos, digits_end(s, r.pos))

\* the items of an array of f64 from the item r on, acc the items before it
RECURSIVE parse_f64_items(_, _, _)
parse_f64_items(s, r, acc) ==
    IF ~r.ok THEN Fail
    ELSE IF Peek(s, r.pos) = "," THEN parse_f64_items(s, parse_f64(s, Read(r.pos + 1, << >>)),
                                                      Append(acc, r.value))
    ELSE IF Peek(s, r.pos) = "]" THEN Read(r.pos + 1, Append(acc, r.value))
    ELSE Fail

\* Vec<f64>, after the opening bracket
parse_f64_array_open(s, r) ==
    IF ~r.ok THEN Fail
    ELSE IF Peek(s, r.pos) = "]" THEN Read(r.pos + 1, << >>)
    ELSE parse_f64_items(s, parse_f64(s, r), << >>)

parse_f64_array(s, r) == parse_f64_array_open(s, expect(s, r, <<"[">>))

\* VecStorage (Deserialize): the data must hold nrows * ncols entries
parse_matrix_close(data, nrows, ncols, r) ==
    IF ~r.ok THEN Fail
    ELSE IF nrows.value * ncols.value # Len(data.value) THEN Fail
    ELSE Read(r.pos, [nrows |-> nrows.value, ncols |-> ncols.value, data |-> data.value])

parse_matrix_ncols(s, data, nrows, ncols) ==
    parse_matrix_close(data, nrows, ncols, expect(s, ncols, <<"]">>))

parse_matrix_nrows(s, data, nrows) ==
    parse_matrix_ncols(s, data, nrows, parse_usize(s, expect(s, nrows, <<",">>)))

parse_matrix_data(s, data) ==
    parse_matrix_nrows(s, data, parse_usize(s, expect(s, data, <<",">>)))

\* DMatrix<f64> (Deserialize)
parse_matrix(s, r) == parse_matrix_data(s, parse_f64_array(s, expect(s, r, <<"[">>)))

parse_vector_close(data, nrows, r) ==
    IF ~r.ok THEN Fail
    ELSE IF nrows.value # Len(data.value) THEN Fail
    ELSE Read(r.pos, data.value)

parse_vector_nrows(s, data, nrows) ==
    parse_vector_close(data, nrows, expect(s, nrows, <<",">> \o NULL \o <<"]">>))

parse_vector_data(s, data) ==
    parse_vector_nrows(s, data, parse_usize(s, expect(s, data, <<",">>)))

\* DVector<f64> (Deserialize)
parse_vector(s, r) == parse_vector_data(s, parse_f64_array(s, expect(s, r, <<"[">>)))

parse_layer_close(weights, biases, r) ==
    IF ~r.ok THEN Fail
    ELSE Read(r.pos, [weights |-> weights.value, biases |-> biases.value])

parse_layer_biases(s, weights, biases) ==
    parse_layer_close(weights, biases, expect(s, biases, <<"}">>))

parse_layer_weights(s, weights) ==
    parse_layer_biases(s, weights,
                       parse_vector(s, expect(s, weights, <<",">> \o KEY_BIASES)))

\* Layer (derive Deserialize)
parse_layer(s, r) == parse_layer_weights(s, parse_matrix(s, expect(s, r, <<"{">> \o KEY_WEIGHTS)))

\* the items of an array of Layer from the item r on
RECURSIVE parse_layer_items(_, _, _)
parse_layer_items(s, r, acc) ==
    IF ~r.ok THEN Fail
    ELSE IF Peek(s, r.pos) = "," THEN parse_layer_items(s, parse_layer(s, Read(r.pos + 1, << >>)),
                                                        Append(acc, r.value))
    ELSE IF Peek(s, r.pos) = "]" THEN Read(r.pos + 1, Append(acc, r.value))
    ELSE Fail

\* Vec<Layer>, after the opening bracket
parse_layers_open(s, r) ==
    IF ~r.ok THEN Fail
    ELSE IF Peek(s, r.pos) = "]" THEN Read(r.pos + 1, << >>)
    ELSE parse_layer_items(s, parse_layer(s, r), << >>)

\* serde_json::from_reader, after the value: only the end of the input may
\* follow it
from_reader_end(s, r) ==
    IF ~r.ok THEN Fail
    ELSE IF r.pos # Len(s) + 1 THEN Fail
    ELSE Read(r.pos, [layers |-> r.value])

\* serde_json::from_reader::<_, NeuralNetwork>
from_reader(s) ==
    from_reader_end(s, expect(s, parse_layers_open(s, expect(s, Start,
                                  <<"{">> \o KEY_LAYERS \o <<"[">>)), <<"}">>))

(***************************************************************************)
(* network.rs: load and save.  The file at the path is [exists, bytes];    *)
(* fault: the environment makes the open fail.                             *)
(***************************************************************************)
NoFile == [exists |-> FALSE, bytes |-> << >>]

\* load: after serde_json::from_reader
load_parsed(r) ==
    IF ~r.ok THEN [ok |-> FALSE, err |-> "CannotParseNeuralNetworkFile", value |-> << >>]
    ELSE [ok |-> TRUE, err |-> "", value |-> r.value]

\* NeuralNetwork::load
load(file, fault) ==
    IF ~file.exists \/ fault
    THEN [ok |-> FALSE, err |-> "CannotLoadNeuralNetwork", value |-> << >>]
    ELSE load_parsed(from_reader(file.bytes))

\* Writing doc from the start of a file opened with write(true) and
\* create(true): the bytes of the old content beyond the length of doc stay.
write(old, doc) == doc \o SubSeq(old, Len(doc) + 1, Len(old))

\* NeuralNetwork::save: the result and the file after it
save(self, file, fault) ==
    IF fault
    THEN [ok |-> FALSE, err |-> "CannotSaveNeuralNetwork", file |-> file]
    ELSE [ok |-> TRUE, err |-> "",
          file |-> [exists |-> TRUE, bytes |-> write(file.bytes, to_json(self))]]

(***************************************************************************)
(* The files handed to the program.  An image file is a magic and an item  *)
(* count followed by image records; in the "record" layout every record    *)
(* carries its own width and height (the layout of the test fixture        *)
(* IMAGES_BYTES), in the "shared" layout the width and height are written  *)
(* once after the count and the records are bare pixel blocks.             *)
(***************************************************************************)
RECURSIVE Concat(_)
Concat(ss) == IF ss = << >> THEN << >> ELSE Head(ss) \o Concat(Tail(ss))

\* Pixels of the k-th image: every byte differs, within and across images.
Pixels(k, size) == [j \in 1 .. (size.width * size.height) |-> 16 * k + j]

ImageRecord(k, size, layout) ==
    IF layout = "record"
    THEN to_be_bytes(size.width) \o to_be_bytes(size.height) \o Pixels(k, size)
    ELSE Pixels(k, size)

ImageFile(magic, count, size, layout, n, tail) ==
    to_be_bytes(magic) \o to_be_bytes(count)
    \o (IF layout = "shared"
        THEN to_be_bytes(size.width) \o to_be_bytes(size.height) ELSE << >>)
    \o Concat([k \in 1 .. n |-> ImageRecord(k, size, layout)])
    \o tail

\* The k-th label byte: base + k (base 250 gives bytes that are no digit).
LabelFile(magic, count, base, n) ==
    to_be_bytes(magic) \o to_be_bytes(count) \o [k \in 1 .. n |-> base + k]

Sizes    == [width : 1 .. MaxDim, height : 1 .. MaxDim]
Layouts  == {"record", "shared"}
Tails    == {<< >>, <<0, 0, 1>>}
Bases    == {0, 250}

\* A file may also end inside its header.
Cut(bytes, cut) == IF cut = 0 THEN bytes ELSE SubSeq(bytes, 1, Min(cut, Len(bytes)))
Cuts == {0, 2, 6}

VARIABLES
    images,       \* the image source: [bytes, pos]
    labels,       \* the label source: [bytes, pos]
    file,         \* how the two files were written (layout, size, records)
    result,       \* what from_readers returned ("Pending" before the call)
    dataset,      \* TrainingDataset: [image_count, label_count, read]
    ret,          \* what the last TrainingDataset::next returned
    iter,         \* per DataIter: the history of its pulls
    faults,       \* I/O errors injected so far
    pulls,        \* calls of TrainingDataset::next so far
    yielded,      \* calls of TrainingDataset::next that returned an item
    builder,      \* an ImageBuilder: [size, pixels] ("-" when there is none)
    image,        \* what the last ImageBuilder::build did, and on which builder
    network,      \* the NeuralNetwork held: [tag, self] ("-" when there is none)
    disk,         \* the file neural_network.json: [exists, bytes]
    call,         \* the last call on the network and what it did
    launch,       \* launch(): [pc, action, seed, ret, trains]
    sample        \* the input and the target handed to compute and train

loaderVars == <<images, labels, file, result, dataset, ret, iter, faults, pulls, yielded>>
builderVars == <<builder, image>>
networkVars == <<network, disk, call, launch, sample>>
vars == <<loaderVars, builderVars, networkVars>>

\* No ImageBuilder is in use.
NoBuilder == [tag |-> "-"]
NoImage == [tag |-> "-"]
BuilderIdle == builder = NoBuilder /\ image = NoImage

\* No network is in use.
NoNetwork == [tag |-> "-"]
NoCall == [op |-> "-"]
NoLaunch == [pc |-> "-"]
NoSample == [input |-> << >>, target |-> << >>]
NetworkIdle ==
    /\ network = NoNetwork
    /\ disk = NoFile
    /\ call = NoCall
    /\ launch = NoLaunch
    /\ sample = NoSample

NoRet == [opt |-> "-", ok |-> FALSE, image |-> << >>, label |-> << >>,
          image_ord |-> 0, label_ord |-> 0]

\* decoded: records decoded so far; pulls: pulls made so far; ended: a pull
\* has returned None; last, decode, value: what the DataIter returned in the
\* last pull on the dataset ("-" when that pull did not reach the DataIter).
NoIter == [decoded |-> 0, pulls |-> 0, ended |-> FALSE,
           last |-> "-", decode |-> "-", value |-> << >>]

\* Files that differ in their headers (magic, count, a file ending inside
\* its header), each followed by as many 1x1 records as it declares.
HeaderFiles ==
    { [images |-> Cut(ImageFile(im, ic, [width |-> 1, height |-> 1], "record", ic, << >>), icut),
       labels |-> Cut(LabelFile(lm, lc, 0, lc), lcut),
       file   |-> [layout |-> "record", size |-> [width |-> 1, height |-> 1],
                   images |-> IF icut = 0 THEN ic ELSE 0,
                   labels |-> IF lcut = 0 THEN lc ELSE 0, base |-> 0]] :
      im \in Magics, lm \in Magics, ic \in 0 .. MaxCount, lc \in 0 .. MaxCount,
      icut \in Cuts, lcut \in Cuts }

\* Files whose headers carry MAGIC and one count, and that differ in what
\* follows: the layout and size of the images, how many image and label
\* records are really there, and a trailing partial record.
BodyFiles ==
    { [images |-> ImageFile(MAGIC, c, size, layout, n, tail),
       labels |-> LabelFile(MAGIC, c, base, nl),
       file   |-> [layout |-> layout, size |-> size, images |-> n, labels |-> nl,
                   base |-> base]] :
      c \in 0 .. MaxCount, size \in Sizes, layout \in Layouts, n \in 0 .. MaxCount,
      tail \in Tails, base \in Bases, nl \in 0 .. MaxCount }

Init ==
    /\ \E f \in HeaderFiles \cup BodyFiles :
          /\ images = [bytes |-> f.images, pos |-> 0]
          /\ labels = [bytes |-> f.labels, pos |-> 0]
          /\ file = f.file
    /\ result = [tag |-> "Pending"]
    /\ dataset = NoDataset
    /\ ret = NoRet
    /\ iter = [Image |-> NoIter, Label |-> NoIter]
    /\ faults = 0
    /\ pulls = 0
    /\ yielded = 0
    /\ BuilderIdle
    /\ NetworkIdle

\* The caller runs TrainingDataset::from_readers on the two sources.
FromReaders ==
    /\ result.tag = "Pending"
    /\ \E fi \in FaultPlans(2), fl \in FaultPlans(2) :
          /\ faults + Injected(fi) + Injected(fl) <= MaxFaults
          /\ \E r \in {from_readers(images, labels, fi, fl)} :
                 /\ result' = r.result
                 /\ dataset' = r.dataset
                 /\ images' = r.images
                 /\ labels' = r.labels
          /\ faults' = faults + Injected(fi) + Injected(fl)
    /\ UNCHANGED <<file, ret, iter, pulls, yielded>>
    /\ UNCHANGED <<builderVars, networkVars>>

\* Bookkeeping of one DataIter: what a pull on it returned.
Pulled(it, r) ==
    IF r.opt = "-"
    THEN [it EXCEPT !.last = "-", !.decode = "-", !.value = << >>]
    ELSE [decoded |-> it.decoded + (IF r.opt = "Some" /\ r.item.ok THEN 1 ELSE 0),
          pulls   |-> it.pulls + 1,
          ended   |-> it.ended \/ r.opt = "None",
          last    |-> r.opt,
          decode  |-> IF r.item.ok THEN "Ok" ELSE "Err",
          value   |-> r.item.value]

\* The item a pull hands to the caller, with the ordinals of its two records.
Returned(r, it) ==
    IF r.opt = "Some" /\ r.ok
    THEN [opt |-> "Some", ok |-> TRUE,
          image |-> r.i.item.value, label |-> r.l.item.value,
          image_ord |-> it.Image.decoded, label_ord |-> it.Label.decoded]
    ELSE [NoRet EXCEPT !.opt = r.opt]

\* The caller pulls the next item of the dataset.
DatasetNext ==
    /\ result.tag = "Ok"
    /\ pulls < MaxPulls
    /\ \E fi \in FaultPlans(3), fl \in FaultPlans(1) :
          /\ faults + Injected(fi) + Injected(fl) <= MaxFaults
          /\ \E r \in {TrainingDataset_next(dataset, images, labels, fi, fl)} :
                 /\ images' = r.images
                 /\ labels' = r.labels
                 /\ dataset' = [dataset EXCEPT !.read = r.read]
                 /\ iter' = [Image |-> Pulled(iter.Image, r.i),
                             Label |-> Pulled(iter.Label, r.l)]
                 /\ ret' = Returned(r, iter')
                 /\ yielded' = yielded + (IF r.opt = "Some" THEN 1 ELSE 0)
          /\ faults' = faults + Injected(fi) + Injected(fl)
    /\ pulls' = pulls + 1
    /\ UNCHANGED <<file, result>>
    /\ UNCHANGED <<builderVars, networkVars>>

Next == FromReaders \/ DatasetNext

Spec == Init /\ [][Next]_vars

(***************************************************************************)
(* The image builder on its own: a caller makes a builder, sets its size   *)
(* and its pixel buffer in any order and any number of times, and builds.  *)
(* A panic of build aborts the program.                                    *)
(***************************************************************************)
\* No dataset is being loaded.
LoaderIdle ==
    /\ images = [bytes |-> << >>, pos |-> 0]
    /\ labels = [bytes |-> << >>, pos |-> 0]
    /\ file = [layout |-> "-"]
    /\ result = [tag |-> "-"]
    /\ dataset = NoDataset
    /\ ret = NoRet
    /\ iter = [Image |-> NoIter, Label |-> NoIter]
    /\ faults = 0
    /\ pulls = 0
    /\ yielded = 0

BuilderSizes == [width : 0 .. MaxDim, height : 0 .. MaxDim]
BuilderPixels == { [k \in 1 .. n |-> 16 * c + k] : n \in 0 .. MaxDim * MaxDim + 1, c \in 0 .. 1 }

BuilderInit ==
    /\ LoaderIdle
    /\ BuilderIdle
    /\ NetworkIdle

NewBuilder ==
    /\ image.tag # "panic"
    /\ builder' = [tag |-> "Builder", self |-> Image_builder]
    /\ UNCHANGED <<loaderVars, networkVars, image>>

WithSize ==
    /\ image.tag # "panic"
    /\ builder.tag = "Builder"
    /\ \E size \in BuilderSizes :
          builder' = [builder EXCEPT !.self = with_size(@, size)]
    /\ UNCHANGED <<loaderVars, networkVars, image>>

WithPixels ==
    /\ image.tag # "panic"
    /\ builder.tag = "Builder"
    /\ \E pixels \in BuilderPixels :
          builder' = [builder EXCEPT !.self = with_pixels_row_major(@, pixels)]
    /\ UNCHANGED <<loaderVars, networkVars, image>>

\* build consumes the builder; image records the builder it was called on.
Build ==
    /\ image.tag # "panic"
    /\ builder.tag = "Builder"
    /\ \E r \in {ImageBuilder_build(builder.self.size, builder.self.pixels)} :
          image' = [tag |-> IF r.panic THEN "panic" ELSE "Image",
                    size |-> r.size, pixels |-> r.pixels, from |-> builder.self]
    /\ builder' = NoBuilder
    /\ UNCHANGED <<loaderVars, networkVars>>

BuilderNext == NewBuilder \/ WithSize \/ WithPixels \/ Build

BuilderSpec == BuilderInit /\ [][BuilderNext]_vars

(***************************************************************************)
(* Saving and loading on their own: a caller holds a network and saves it  *)
(* to, or loads from, a file that may hold nothing, or a document saved    *)
(* earlier.  The networks are small: load accepts layers of any shape.     *)
(***************************************************************************)
Params == {7, -200}
TinyLayers ==
    { [weights |-> [nrows |-> 1, ncols |-> 1, data |-> <<w>>], biases |-> <<b>>] :
      w \in Params, b \in Params }
TinyNetworks == { [layers |-> l] : l \in UNION { [1 .. n -> TinyLayers] : n \in 1 .. MaxLayers } }
SavedFiles == { [exists |-> TRUE, bytes |-> to_json(n)] : n \in TinyNetworks }
EmptyFile == [exists |-> TRUE, bytes |-> << >>]

PersistInit ==
    /\ LoaderIdle
    /\ BuilderIdle
    /\ network \in { [tag |-> "held", self |-> n] : n \in TinyNetworks }
    /\ disk \in {NoFile, EmptyFile} \cup SavedFiles
    /\ call = NoCall
    /\ launch = NoLaunch
    /\ sample = NoSample

Save ==
    /\ \E fault \in BOOLEAN :
          \E r \in {save(network.self, disk, fault)} :
              /\ disk' = r.file
              /\ call' = [op |-> "save", ok |-> r.ok, err |-> r.err, value |-> << >>]
    /\ UNCHANGED <<loaderVars, builderVars, network, launch, sample>>

Load ==
    /\ \E fault \in BOOLEAN :
          \E r \in {load(disk, fault)} :
              call' = [op |-> "load", ok |-> r.ok, err |-> r.err, value |-> r.value]
    /\ UNCHANGED <<loaderVars, builderVars, network, disk, launch, sample>>

PersistNext == Save \/ Load

PersistSpec == PersistInit /\ [][PersistNext]_vars

(***************************************************************************)
(* The network in use.  launch loads the network from neural_network.json  *)
(* or makes an untrained one; the network is then handed inputs: in        *)
(* Action::ShowGui compute is called on every submitted input, in          *)
(* Action::Train train is called on every sample.  compute and train are   *)
(* public, so the input and the target are any vectors a caller may pass.  *)
(* A panic aborts the program.                                             *)
(***************************************************************************)
Seeds == 1 .. MaxSeeds

\* launch: the input entry of a pixel, 1.0 - x/255 - 0.5
pixel_input(x) == UNIT - (x * UNIT) \div 255 - UNIT \div 2

\* An input vector of n entries: a blank canvas (every pixel 255), a canvas
\* with every fifth pixel black, and vectors whose first entry is not finite.
Patterns == {"blank", "stroke", "nan", "inf"}
Input(pattern, n) ==
    [k \in 1 .. n |->
        IF pattern = "nan" /\ k = 1 THEN NAN
        ELSE IF pattern = "inf" /\ k = 1 THEN INF
        ELSE IF pattern = "stroke" /\ k % 5 = 0 THEN pixel_input(0)
        ELSE pixel_input(255)]

\* expected_output: DVector::zeros(n) with 1.0 at index digit
one_hot(digit, n) == [k \in 1 .. n |-> IF k = digit + 1 THEN UNIT ELSE 0]

Samples ==
    { [input |-> Input(p, INPUT_LAYER_SIZE), target |-> one_hot(3, OUTPUT_LAYER_SIZE)] :
      p \in Patterns }
    \cup { [input |-> Input("blank", n), target |-> one_hot(3, OUTPUT_LAYER_SIZE)] :
           n \in {INPUT_LAYER_SIZE - 1, INPUT_LAYER_SIZE + 1} }
    \cup { [input |-> Input("stroke", INPUT_LAYER_SIZE), target |-> t] :
           t \in {one_hot(9, OUTPUT_LAYER_SIZE), one_hot(3, OUTPUT_LAYER_SIZE - 1)} }

\* What neural_network.json may hold when launch starts: nothing, the start
\* of a document, or the document of a network of 1 .. MaxLayers layers of
\* one weight and one bias each.
CutFile == [exists |-> TRUE, bytes |-> <<"{">> \o KEY_LAYERS]
NetworkFiles ==
    {NoFile, CutFile}
    \cup { [exists |-> TRUE,
            bytes |-> to_json([layers |-> [k \in 1 .. n |->
                         [weights |-> [nrows |-> 1, ncols |-> 1, data |-> <<7>>],
                          biases |-> <<-200>>]]])] : n \in 1 .. MaxLayers }

NetworkInit ==
    /\ LoaderIdle
    /\ BuilderIdle
    /\ network = NoNetwork
    /\ disk \in NetworkFiles
    /\ call = NoCall
    /\ \E seed \in Seeds :
          launch = [pc |-> "start", action |-> "-", seed |-> seed, ret |-> "-", trains |-> 0]
    /\ sample \in Samples

\* launch: let action = parse_args()?
ParseArgs ==
    /\ launch.pc = "start"
    /\ \E parsed \in {"ShowGui", "Train", "CliError"} :
          launch' = IF parsed = "CliError"
                    THEN [launch EXCEPT !.pc = "returned", !.ret = "Err(CliError)"]
                    ELSE [launch EXCEPT !.pc = "load", !.action = parsed]
    /\ UNCHANGED <<loaderVars, builderVars, network, disk, call, sample>>

\* Faulty variant: the loaded network is dropped.
unwrap_or_default(r, default) == [tag |-> "new_untrained", self |-> default]

\* Result::unwrap_or
unwrap_or(r, default) ==
    IF r.ok THEN [tag |-> "load", self |-> r.value]
    ELSE [tag |-> "new_untrained", self |-> default]

\* launch: let mut neural_network = NeuralNetwork::load(..).unwrap_or(..)
LoadNetwork ==
    /\ launch.pc = "load"
    /\ \E fault \in BOOLEAN :
          \E r \in {load(disk, fault)} :
              /\ call' = [op |-> "load", ok |-> r.ok, err |-> r.err, value |-> r.value]
              /\ network' = unwrap_or(r, new_untrained(launch.seed))
    /\ launch' = [launch EXCEPT !.pc = "run"]
    /\ UNCHANGED <<loaderVars, builderVars, disk, sample>>

\* neural_network.compute(input)
Compute ==
    /\ launch.pc = "run"
    /\ launch.action = "ShowGui"
    /\ \E r \in {compute_ex(network.self, sample.input)} :
          /\ call' = [op |-> "compute", panic |-> r.panic, at |-> r.at,
                      evaluated |-> r.evaluated, logits |-> r.logits,
                      result |-> IF r.panic THEN << >> ELSE r.result]
          /\ launch' = [launch EXCEPT !.pc = IF r.panic THEN "aborted" ELSE "run"]
    /\ UNCHANGED <<loaderVars, builderVars, network, disk, sample>>

\* neural_network.train(input, &target)
Train ==
    /\ launch.pc = "run"
    /\ launch.action = "Train"
    /\ launch.trains < MaxTrain
    /\ \E r \in {train(network.self, sample.input, sample.target)} :
          /\ call' = [op |-> "train", panic |-> r.panic, at |-> r.at,
                      evaluated |-> r.evaluated,
                      local_gradients |-> r.local_gradients,
                      derivatives |-> r.derivatives,
                      result |-> IF r.panic THEN << >> ELSE r.result]
          /\ network' = [network EXCEPT !.self = [layers |-> r.layers]]
          /\ launch' = [launch EXCEPT !.pc = IF r.panic THEN "aborted" ELSE "run",
                                     !.trains = @ + 1]
    /\ UNCHANGED <<loaderVars, builderVars, disk, sample>>

NetworkNext == ParseArgs \/ LoadNetwork \/ Compute \/ Train

NetworkSpec == NetworkInit /\ [][NetworkNext]_vars

(***************************************************************************)
(* launch, Action::Train: the training loop over the dataset.  The two     *)
(* files are described by what the loader finds in them: the item count    *)
(* both headers declare, the whole records that follow, the area of the    *)
(* shared image size, and the place and value of one label outside 0..9.   *)
(* The network is described by whether train returns on it.                *)
(***************************************************************************)
\* dataset.take(10_000)
TAKE_CAP == 10000

\* The label byte of the k-th record
digit_of(f, k) == IF k = f.bad THEN f.bad_digit ELSE (k - 1) % 10

\* TrainingDataset::next on such files: an item while the counter is below
\* the declared count and both streams hold one more record, None otherwise.
next_item(ds, f) ==
    IF ds.read < len(ds) /\ ds.read < f.records
    THEN [opt |-> "Some", ok |-> TRUE, index |-> ds.read + 1,
          pixels |-> f.area, digit |-> digit_of(f, ds.read + 1), read |-> ds.read + 1]
    ELSE [opt |-> "None", ok |-> FALSE, index |-> 0,
          pixels |-> 0, digit |-> 0, read |-> ds.read]

\* Take::next: None without a pull on the dataset once n items were asked for
Take_next(n, ds, f) ==
    IF n = 0
    THEN [opt |-> "None", ok |-> FALSE, index |-> 0,
          pixels |-> 0, digit |-> 0, read |-> ds.read]
    ELSE next_item(ds, f)

\* The body of the for loop on one pulled example: break on None and on Err;
\* DVector::from_iterator(28*28, ..) panics on fewer than 784 pixels,
\* expected_output[digit] panics on a digit that is no index of 10 entries,
\* then train is called.
loop_body(launch_, example, returns) ==
    IF example.opt = "None" \/ ~example.ok
    THEN [launch_ EXCEPT !.pc = "save"]
    ELSE IF example.pixels < 28 * 28
    THEN [launch_ EXCEPT !.pc = "aborted", !.at = "from_iterator"]
    ELSE IF example.digit >= 10
    THEN [launch_ EXCEPT !.pc = "aborted", !.at = "expected_output"]
    ELSE [launch_ EXCEPT !.pc = IF returns THEN "loop" ELSE "aborted",
                         !.at = IF returns THEN "-" ELSE "train",
                         !.trains = @ + 1, !.last = example.index]

Counts == {0, 1, MaxCount, TAKE_CAP, TAKE_CAP + 1}
Areas == {28 * 28 - 1, 28 * 28, 28 * 28 + 1}

DriverFiles ==
    { [layout |-> "dataset", count |-> c, records |-> r, area |-> a,
       bad |-> b, bad_digit |-> d] :
      c \in Counts, r \in {0, 1, MaxCount, TAKE_CAP, TAKE_CAP + 1}, a \in Areas,
      b \in {0, 1, MaxCount, TAKE_CAP}, d \in {10, 255} }

\* The network the driver holds is written by save and handed to train;
\* the driver reads none of its parameters.  A network of one weight and one
\* bias stands for it.
HeldNetwork ==
    [layers |-> <<[weights |-> [nrows |-> 1, ncols |-> 1, data |-> <<7>>],
                   biases |-> <<-200>>]>>]

DriverInit ==
    /\ images = [bytes |-> << >>, pos |-> 0]
    /\ labels = [bytes |-> << >>, pos |-> 0]
    /\ file \in { f \in DriverFiles :
                    /\ f.records \in {f.count, f.count - 1}
                    /\ f.bad \in {0, 1, f.count}
                    /\ (f.bad = 0 => f.bad_digit = 10) }
    /\ result = [tag |-> "Pending"]
    /\ dataset = NoDataset
    /\ ret = [opt |-> "-"]
    /\ iter = [n |-> 0]
    /\ faults = 0
    /\ pulls = 0
    /\ yielded = 0
    /\ BuilderIdle
    /\ network = [tag |-> "held", self |-> HeldNetwork]
    /\ disk \in {NoFile, CutFile}
    /\ call = NoCall
    /\ \E returns \in BOOLEAN :
          launch = [pc |-> "open", action |-> "Train", ret |-> "-", at |-> "-",
                    train_returns |-> returns, trains |-> 0, last |-> 0]
    /\ sample = NoSample

\* File::open(..)?, File::open(..)?, TrainingDataset::from_readers(..)?,
\* dataset.take(10_000)
OpenDataset ==
    /\ launch.pc = "open"
    /\ \E opened \in BOOLEAN :
          IF opened
          THEN /\ result' = [tag |-> "Ok"]
               /\ dataset' = TrainingDataset_new(file.count, file.count)
               /\ iter' = [n |-> TAKE_CAP]
               /\ launch' = [launch EXCEPT !.pc = "loop"]
          ELSE /\ result' = [tag |-> "Err"]
               /\ launch' = [launch EXCEPT !.pc = "returned", !.ret = "Err"]
               /\ UNCHANGED <<dataset, iter>>
    /\ UNCHANGED <<images, labels, file, ret, faults, pulls, yielded,
                   builderVars, network, disk, call, sample>>

\* One round of for (i, example) in dataset.take(10_000).enumerate()
Iterate ==
    /\ launch.pc = "loop"
    /\ \E example \in {Take_next(iter.n, dataset, file)} :
          /\ ret' = example
          /\ iter' = [n |-> IF iter.n = 0 THEN 0 ELSE iter.n - 1]
          /\ pulls' = pulls + (IF iter.n = 0 THEN 0 ELSE 1)
          /\ yielded' = yielded + (IF example.opt = "Some" THEN 1 ELSE 0)
          /\ dataset' = [dataset EXCEPT !.read = example.read]
          /\ launch' = loop_body(launch, example, launch.train_returns)
    /\ UNCHANGED <<images, labels, file, result, faults,
                   builderVars, network, disk, call, sample>>

\* Faulty variant: the error of save is passed on with `?`.
launch_return_save(r) == IF r.ok THEN "Ok(())" ELSE "Err"

\* launch: what it returns after neural_network.save(..), whose result r
\* is dropped
launch_return(r) == "Ok(())"

\* neural_network.save("neural_network.json"); Ok(())
SaveNetwork ==
    /\ launch.pc = "save"
    /\ \E fault \in BOOLEAN :
          \E r \in {save(network.self, disk, fault)} :
              /\ disk' = r.file
              /\ call' = [op |-> "save", ok |-> r.ok, err |-> r.err, value |-> << >>]
              /\ launch' = [launch EXCEPT !.pc = "returned", !.ret = launch_return(r)]
    /\ UNCHANGED <<loaderVars, builderVars, network, sample>>

DriverNext == OpenDataset \/ Iterate \/ SaveNetwork

DriverSpec == DriverInit /\ [][DriverNext]_vars

(***************************************************************************)
(* launch, Action::ShowGui: the closure handed to gui::launch, from the    *)
(* output of compute on.  The outputs are vectors compute returns on the   *)
(* fixed topology: ten entries that sum to 1 with one largest entry or     *)
(* two equal largest entries at any two places, ten equal entries, and     *)
(* ten NaN entries.                                                        *)
(***************************************************************************)
\* x > acc_v on f64: false when either side is NaN
gt(x, y) == ~is_nan(x) /\ ~is_nan(y) /\ x > y

\* Faulty variant: an entry equal to the accumulated value replaces it.
fold_closure_ge(acc, i, x) ==
    IF gt(x, acc.v) \/ x = acc.v THEN [i |-> i % 256, v |-> x] ELSE acc

\* The closure of the fold: (i as u8, x) if x > acc_v, else the accumulator
fold_closure(acc, i, x) ==
    IF gt(x, acc.v) THEN [i |-> i % 256, v |-> x] ELSE acc

\* output.as_slice().iter().enumerate().fold(.., ..) from entry k on
RECURSIVE fold(_, _, _)
fold(output, k, acc) ==
    IF k > Len(output) THEN acc
    ELSE fold(output, k + 1, fold_closure(acc, k - 1, output[k]))

\* let (digit, chance) = ..fold((0u8, f64::NEG_INFINITY), ..); (digit, chance)
argmax(output) == fold(output, 1, [i |-> 0, v |-> NEG_INF])

Outputs ==
    { [k \in 1 .. OUTPUT_LAYER_SIZE |->
          IF p = q THEN (IF k = p THEN 280 ELSE 80)
          ELSE (IF k = p \/ k = q THEN 300 ELSE 50)] : p \in 1 .. OUTPUT_LAYER_SIZE, q \in 1 .. OUTPUT_LAYER_SIZE }
    \cup { [k \in 1 .. OUTPUT_LAYER_SIZE |-> v] : v \in {UNIT \div OUTPUT_LAYER_SIZE, NAN} }

CallbackInit ==
    /\ LoaderIdle
    /\ BuilderIdle
    /\ network = NoNetwork
    /\ disk = NoFile
    /\ call = NoCall
    /\ launch = [pc |-> "gui", action |-> "ShowGui"]
    /\ sample = NoSample

\* The closure is called and neural_network.compute(input) returns output
ComputeOutput ==
    /\ launch.pc = "gui"
    /\ \E output \in Outputs :
          call' = [op |-> "compute", panic |-> FALSE, result |-> output]
    /\ launch' = [launch EXCEPT !.pc = "fold"]
    /\ UNCHANGED <<loaderVars, builderVars, network, disk, sample>>

\* The closure returns (digit, chance)
ArgMax ==
    /\ launch.pc = "fold"
    /\ \E r \in {argmax(call.result)} :
          call' = [op |-> "submit", output |-> call.result, digit |-> r.i, chance |-> r.v]
    /\ launch' = [launch EXCEPT !.pc = "gui"]
    /\ UNCHANGED <<loaderVars, builderVars, network, disk, sample>>

CallbackNext == ComputeOutput \/ ArgMax

CallbackSpec == CallbackInit /\ [][CallbackNext]_vars

(***************************************************************************)
(* Properties.                                                             *)
(***************************************************************************)
Loaded == result.tag = "Ok"
Streams == {"Image", "Label"}

\* C1: every item a pull on the dataset yields pairs the k-th record decoded
\* from the image stream with the k-th record decoded from the label stream,
\* for the same k, also after an earlier pull ended the sequence because only
\* one of the two decodes failed.
C1_SameOrdinal ==
    (ret.opt = "Some" /\ ret.ok) => ret.image_ord = ret.label_ord

\* C2: once a pull on a DataIter has returned end-of-sequence, every later
\* pull on the same DataIter returns end-of-sequence too.
C2_EndIsPermanent ==
    [][\A T \in Streams :
          (iter[T].ended /\ iter'[T].pulls > iter[T].pulls) => iter'[T].last = "None"]_vars

\* C3: a pull on the dataset never yields an error item; a pull in which the
\* decode of the image record or of the label record fails returns
\* end-of-sequence, whatever the number of items yielded so far.
C3_NoErrorItem ==
    /\ ret.opt = "Some" => ret.ok
    /\ (iter.Image.decode = "Err" \/ iter.Label.decode = "Err") => ret.opt = "None"

\* C3 witness: a decode failed before the declared count was reached and the
\* pull returned end-of-sequence.
C3_Witness ==
    /\ Loaded
    /\ iter.Label.decode = "Err"
    /\ dataset.read < dataset.image_count
    /\ ret.opt = "None"

\* The first 4 bytes of a file as a big-endian u32, and the next 4.
MagicOf(src) == from_be_bytes(SubSeq(src.bytes, 1, 4))
CountOf(src) == from_be_bytes(SubSeq(src.bytes, 5, 8))
Returned_from_readers == result.tag # "Pending"

\* C4: from_readers on two sources that hold their 8 header bytes and are
\* read without I/O error: if the first 4 bytes of the image source differ
\* from 0x00000803 the result is MagicNotFound with the found value and kind
\* Image and no dataset is constructed, and if they equal 0x00000803 the
\* image magic check passes.
C4_ImageMagic ==
    (/\ Returned_from_readers
     /\ faults = 0
     /\ Len(images.bytes) >= 8
     /\ Len(labels.bytes) >= 8) =>
        IF MagicOf(images) # IMAGES_MAGIC
        THEN /\ result = [tag |-> "MagicNotFound", magic |-> MagicOf(images),
                          dataset_kind |-> "Image"]
             /\ dataset = NoDataset
        ELSE ~(result.tag = "MagicNotFound" /\ result.dataset_kind = "Image")

\* The image source's header has been accepted: its magic passed the check
\* and its item count was read.
ImageHeaderAccepted ==
    /\ Returned_from_readers
    /\ faults = 0
    /\ Len(images.bytes) >= 8
    /\ MagicOf(images) = MAGIC

\* C5: from_readers, the image header being accepted, on a label source whose
\* first 4 bytes are readable: if they differ from 0x00000801 the result is
\* MagicNotFound with the found value and kind Label and no dataset is
\* constructed, and if they equal 0x00000801 the label magic check passes.
C5_LabelMagic ==
    (ImageHeaderAccepted /\ Len(labels.bytes) >= 4) =>
        IF MagicOf(labels) # LABELS_MAGIC
        THEN /\ result = [tag |-> "MagicNotFound", magic |-> MagicOf(labels),
                          dataset_kind |-> "Label"]
             /\ dataset = NoDataset
        ELSE ~(result.tag = "MagicNotFound" /\ result.dataset_kind = "Label")

\* C5 witness: from_readers has rejected the magic of a label file, the
\* image header being accepted.
C5_Witness ==
    /\ ImageHeaderAccepted
    /\ Len(labels.bytes) >= 4
    /\ MagicOf(labels) = IMAGES_MAGIC
    /\ result.tag = "MagicNotFound"

\* Both magic values are accepted and both item counts are readable.
BothHeadersRead ==
    /\ ImageHeaderAccepted
    /\ Len(labels.bytes) >= 8
    /\ MagicOf(labels) = MAGIC

\* C6: from_readers, both magics accepted and both counts readable: unequal
\* counts give InvalidLabelCount with sample_count the image count and
\* label_count the label count, and no dataset; equal counts give a dataset
\* that starts with read = 0.
C6_Counts ==
    BothHeadersRead =>
        IF CountOf(images) # CountOf(labels)
        THEN /\ result = [tag |-> "InvalidLabelCount",
                          sample_count |-> CountOf(images),
                          label_count |-> CountOf(labels)]
             /\ dataset = NoDataset
        ELSE /\ result.tag = "Ok"
             /\ dataset.image_count = CountOf(images)
             /\ pulls = 0 => dataset.read = 0

\* C6 witness: from_readers has returned InvalidLabelCount for 2 images and
\* 1 label.
C6_Witness ==
    /\ BothHeadersRead
    /\ result.tag = "InvalidLabelCount"
    /\ result.sample_count = 2
    /\ result.label_count = 1

\* The two files declare the same count N in accepted headers, hold at least
\* N complete image records (each its width, its height and its pixels) and
\* N label records, and are read without I/O error.
WellFormed ==
    /\ Loaded
    /\ faults = 0
    /\ file.layout = "record"
    /\ file.images >= dataset.image_count
    /\ file.labels >= dataset.image_count

\* The k-th image and the k-th label written to the two files.
ImageOf(k) == [panic |-> FALSE, size |-> file.size, pixels |-> Pixels(k, file.size)]
LabelOf(k) == [digit |-> file.base + k]

\* C7: on well-formed files declaring N items from_readers succeeds with
\* read = 0, the k-th pull (1 <= k <= N) yields an Ok item holding the k-th
\* image and the k-th label and leaves read = k, and every pull after the
\* N-th yields end-of-sequence.
C7_ReadsAll ==
    WellFormed =>
        /\ pulls = 0 => dataset.read = 0
        /\ (1 <= pulls /\ pulls <= dataset.image_count) =>
              /\ ret.opt = "Some" /\ ret.ok
              /\ ret.image = ImageOf(pulls)
              /\ ret.label = LabelOf(pulls)
              /\ dataset.read = pulls
        /\ pulls > dataset.image_count => ret.opt = "None"

\* C7 witness: two items were declared and yielded and the third pull has
\* returned end-of-sequence.
C7_Witness ==
    /\ WellFormed
    /\ dataset.image_count = 2
    /\ dataset.read = 2
    /\ pulls = 3
    /\ ret.opt = "None"

\* C8: from_readers reads one shared ImageSize, two big-endian u32, from the
\* image source right after the item count, and every image record is then
\* decoded from exactly width * height pixel bytes: on a file written with
\* one shared size and read without I/O error, while no decode has failed,
\* the image source has consumed its 8 header bytes, the 8 bytes of the
\* shared size and width * height bytes for each image decoded.
C8_SharedSize ==
    (/\ Loaded
     /\ faults = 0
     /\ file.layout = "shared"
     /\ Len(images.bytes) >= 16
     /\ ~iter.Image.ended) =>
        images.pos = 16 + iter.Image.decoded
                             * ( from_be_bytes(SubSeq(images.bytes, 9, 12))
                               * from_be_bytes(SubSeq(images.bytes, 13, 16)) )

\* The record at the cursor of a source: a width, a height and, when
\* complete, width * height pixel bytes.
RecordAt(src) ==
    LET w == from_be_bytes(SubSeq(src.bytes, src.pos + 1, src.pos + 4))
        h == from_be_bytes(SubSeq(src.bytes, src.pos + 5, src.pos + 8))
        small == w <= Len(src.bytes) /\ h <= Len(src.bytes)
    IN  [width |-> w, height |-> h,
         complete |-> small /\ 8 + w * h <= Remaining(src),
         pixels |-> IF small /\ 8 + w * h <= Remaining(src)
                    THEN SubSeq(src.bytes, src.pos + 9, src.pos + 8 + w * h)
                    ELSE << >>]

\* C9: a decode of one image record, made without I/O error on a source that
\* holds at its cursor a width w, a height h and w * h pixel bytes, succeeds,
\* consumes exactly these 8 + w * h bytes and yields the image of size w x h
\* with these pixels in the same order.
C9_ImageRecord ==
    [][(/\ iter'.Image.pulls = iter.Image.pulls + 1
        /\ faults' = faults
        /\ Remaining(images) >= 8
        /\ RecordAt(images).complete) =>
            /\ iter'.Image.decode = "Ok"
            /\ images'.pos = images.pos + 8
                                + RecordAt(images).width * RecordAt(images).height
            /\ iter'.Image.value =
                   [panic |-> FALSE,
                    size |-> [width |-> RecordAt(images).width,
                              height |-> RecordAt(images).height],
                    pixels |-> RecordAt(images).pixels]]_vars

\* C9 witness: a second record of 1 x 2 pixels was decoded right after the
\* first one.
C9_Witness ==
    /\ faults = 0
    /\ file.layout = "record"
    /\ iter.Image.decoded = 2
    /\ iter.Image.decode = "Ok"
    /\ iter.Image.value.size = [width |-> 1, height |-> 2]
    /\ iter.Image.value.pixels = <<33, 34>>
    /\ images.pos = 8 + 10 + 10

\* C10: once read equals the declared count, a pull on the dataset returns
\* end-of-sequence, pulls neither DataIter and reads no byte of either
\* source.
C10_NoReadPastCount ==
    [][(/\ Loaded
        /\ dataset.read = dataset.image_count
        /\ pulls' = pulls + 1) =>
            /\ ret'.opt = "None"
            /\ images' = images
            /\ labels' = labels
            /\ iter'.Image.pulls = iter.Image.pulls
            /\ iter'.Label.pulls = iter.Label.pulls]_vars

\* C10 witness: a pull was made with read at the declared count of 1 while
\* both sources still held bytes, and returned end-of-sequence.
C10_Witness ==
    /\ Loaded
    /\ dataset.image_count = 1
    /\ dataset.read = 1
    /\ pulls = 2
    /\ ret.opt = "None"
    /\ Remaining(images) > 0
    /\ Remaining(labels) > 0

\* C11: after any sequence of pulls on the dataset, read equals the number of
\* pulls that yielded an item (a pull that yields an item adds one to read, a
\* pull that yields end-of-sequence leaves it alone), and read never exceeds
\* the declared item count.
C11_ReadCountsItems ==
    Loaded => /\ dataset.read = yielded
              /\ dataset.read <= dataset.image_count

\* C11 witness: one item was yielded, then a pull made before the declared
\* count of 2 was reached ended the sequence, and read is still 1.
C11_Witness ==
    /\ Loaded
    /\ dataset.image_count = 2
    /\ pulls = 2
    /\ yielded = 1
    /\ ret.opt = "None"
    /\ iter.Image.last = "None"
    /\ dataset.read = 1

\* C20: a decode of one label record from a source that holds a byte, read
\* without I/O error, consumes exactly that one byte and returns without error
\* a Label whose digit is the byte unchanged, whether or not the byte is in
\* 0..9.
C20_LabelIsByte ==
    [][(/\ iter'.Label.pulls = iter.Label.pulls + 1
        /\ faults' = faults
        /\ Remaining(labels) >= 1) =>
           /\ iter'.Label.decode = "Ok"
           /\ iter'.Label.value = [digit |-> labels.bytes[labels.pos + 1]]
           /\ labels'.pos = labels.pos + 1]_vars

\* C20 witness: the label byte 252, which is no digit, was decoded and handed
\* to the caller as digit 252.
C20_Witness ==
    /\ Loaded
    /\ iter.Label.decode = "Ok"
    /\ labels.bytes[labels.pos] = 252
    /\ ret.opt = "Some"
    /\ ret.label = [digit |-> 252]

\* C16: ImageBuilder::build returns an Image if and only if the length of
\* the builder's pixel buffer equals width * height of its size, and aborts
\* otherwise; the Image it returns holds that size and that buffer, so its
\* pixel count equals the area of its size.
C16_BuildChecksArea ==
    image.tag # "-" =>
        /\ image.tag = "Image" <=>
               Len(image.from.pixels) = image.from.size.width * image.from.size.height
        /\ image.tag = "panic" <=>
               Len(image.from.pixels) # image.from.size.width * image.from.size.height
        /\ image.tag = "Image" =>
               /\ image.size = image.from.size
               /\ image.pixels = image.from.pixels
               /\ Len(image.pixels) = ImageSize_area(image.size)

\* C16 witness: build aborted on a 2x2 builder that held 5 pixels.
C16_Witness ==
    /\ image.tag = "panic"
    /\ image.from.size = [width |-> 2, height |-> 2]
    /\ Len(image.from.pixels) = 5

\* C12: a load that follows a successful save to the same path and can open
\* the file succeeds and returns the network that was saved, with the same
\* layers, weights and biases, whatever the file held before the save.
C12_SaveThenLoad ==
    [][(/\ call.op = "save"
        /\ call.ok
        /\ call'.op = "load"
        /\ call'.err # "CannotLoadNeuralNetwork") =>
           /\ call'.ok
           /\ call'.value = network.self]_vars

\* C13: a call of train leaves every layer's weight matrix and bias vector
\* as they were before the call, so any number of calls leaves them as they
\* were before the first.
C13_TrainKeepsParameters ==
    [][call'.op = "train" => network'.self = network.self]_vars

\* C13 witness: train returned MaxTrain times on an untrained network, with
\* gradients that are not zero.
C13_Witness ==
    /\ call.op = "train"
    /\ ~call.panic
    /\ launch.trains = MaxTrain
    /\ network.tag = "new_untrained"
    /\ \E k \in 1 .. HIDDEN_LAYER_SIZE : call.local_gradients[1][k] # 0
    /\ \E k \in 1 .. OUTPUT_LAYER_SIZE : call.local_gradients[2][k] # 0

\* A network of exactly two layers: 20x784 weights with 20 biases, then
\* 10x20 weights with 10 biases.
FixedTopology(self) ==
    /\ Len(self.layers) = 2
    /\ self.layers[1].weights.nrows = HIDDEN_LAYER_SIZE
    /\ self.layers[1].weights.ncols = INPUT_LAYER_SIZE
    /\ Len(self.layers[1].weights.data) = HIDDEN_LAYER_SIZE * INPUT_LAYER_SIZE
    /\ Len(self.layers[1].biases) = HIDDEN_LAYER_SIZE
    /\ self.layers[2].weights.nrows = OUTPUT_LAYER_SIZE
    /\ self.layers[2].weights.ncols = HIDDEN_LAYER_SIZE
    /\ Len(self.layers[2].weights.data) = OUTPUT_LAYER_SIZE * HIDDEN_LAYER_SIZE
    /\ Len(self.layers[2].biases) = OUTPUT_LAYER_SIZE

\* C14: every network the program holds, made by new_untrained or returned
\* by a successful load, and after any number of train calls, has exactly
\* two layers, of 20x784 weights with 20 biases and 10x20 weights with 10
\* biases.
C14_FixedTopology ==
    network.tag # "-" => FixedTopology(network.self)

\* C15: compute, and train, called with an input whose length is not 784
\* aborts at the length check before any layer is evaluated and returns no
\* result; called with an input of length 784 it does not abort at the
\* length check.
C15_InputLength ==
    call.op \in {"compute", "train"} =>
        IF Len(sample.input) # INPUT_LAYER_SIZE
        THEN /\ call.panic
             /\ call.at = "input"
             /\ call.evaluated = 0
             /\ call.result = << >>
             /\ launch.pc = "aborted"
        ELSE call.at # "input"

\* C15 witness: compute was called with 785 entries and aborted, no layer
\* evaluated.
C15_Witness ==
    /\ call.op = "compute"
    /\ Len(sample.input) = INPUT_LAYER_SIZE + 1
    /\ call.panic
    /\ call.evaluated = 0
    /\ network.tag = "new_untrained"

\* C17: once launch has passed the load of neural_network.json, it has not
\* returned; if the load failed, for whatever reason, the network in use is
\* a freshly made untrained one, and if it succeeded the network in use is
\* the loaded one.
C17_LoadOrUntrained ==
    (launch.pc = "run" /\ call.op = "load") =>
        /\ launch.ret = "-"
        /\ IF call.ok
           THEN network = [tag |-> "load", self |-> call.value]
           ELSE network = [tag |-> "new_untrained", self |-> new_untrained(launch.seed)]

\* C17 witness: the file did not parse, and launch goes on with an
\* untrained network.
C17_Witness ==
    /\ launch.pc = "run"
    /\ call.op = "load"
    /\ call.err = "CannotParseNeuralNetworkFile"
    /\ network.tag = "new_untrained"
    /\ FixedTopology(network.self)
    /\ launch.ret = "-"

\* What C19 says of the vector compute returned: 10 entries, each in
\* [0, 1], that add up to 1 within one unit in the last place per entry.
IsDistribution(output) ==
    /\ Len(output) = OUTPUT_LAYER_SIZE
    /\ \A k \in 1 .. Len(output) : is_finite(output[k]) /\ 0 <= output[k] /\ output[k] <= UNIT
    /\ is_finite(sum(output))
    /\ Abs(sum(output) - UNIT) <= OUTPUT_LAYER_SIZE

\* C19: for a network of the fixed topology and any input of 784 entries,
\* compute returns 10 entries, each in [0, 1], that add up to 1.
C19_Distribution ==
    (/\ call.op = "compute"
     /\ FixedTopology(network.self)
     /\ Len(sample.input) = INPUT_LAYER_SIZE) =>
        /\ ~call.panic
        /\ IsDistribution(call.result)

\* C19, amended: the same, for the inputs on which every entry of the
\* output layer is finite before softmax.
C19_DistributionOfFinite ==
    (/\ call.op = "compute"
     /\ FixedTopology(network.self)
     /\ Len(sample.input) = INPUT_LAYER_SIZE
     /\ ~call.panic => \A k \in 1 .. Len(call.logits) : is_finite(call.logits[k])) =>
        /\ ~call.panic
        /\ IsDistribution(call.result)

\* C19 witness: compute returned a distribution that is not uniform.
C19_Witness ==
    /\ call.op = "compute"
    /\ FixedTopology(network.self)
    /\ IsDistribution(call.result)
    /\ \E j, k \in 1 .. OUTPUT_LAYER_SIZE : call.result[j] # call.result[k]

\* C18: in training mode train is called exactly once for each sample the
\* dataset yields, the k-th call on the k-th sample, at most 10,000 times,
\* and after a pull that yields an error or the end of the sequence there is
\* no further pull and no further call of train.
C18_TrainedInOrder ==
    /\ launch.trains = yielded
    /\ launch.last = launch.trains
    /\ launch.trains <= TAKE_CAP
C18_StopsAtEnd ==
    (ret.opt = "None" \/ (ret.opt = "Some" /\ ~ret.ok))
        => (launch'.trains = launch.trains /\ pulls' = pulls)
C18_TrainOncePerSample == [](C18_TrainedInOrder) /\ [][C18_StopsAtEnd]_vars

\* C21: in a train call that returns, the bias vector of the output layer is
\* as long as the vector propagated back from it, transpose(weights) times
\* the output layer's local gradient, and every entry of the hidden layer's
\* local gradient is (propagated entry + its bias) times the cached
\* derivative of that entry.
C21_Propagated == tr_mul_to(network.self.layers[2].weights, call.local_gradients[2])
C21_BiasesWholeVector ==
    (call.op = "train" /\ ~call.panic) =>
        /\ Len(network.self.layers[2].biases) = Len(C21_Propagated)
        /\ \A j \in 1 .. Len(C21_Propagated) :
              call.local_gradients[1][j] =
                  FMul(FAdd(C21_Propagated[j], network.self.layers[2].biases[j]),
                       call.derivatives[1][j])

\* C22: in training mode the label digit of every sample the dataset yields
\* is within 0..9, and the driver never aborts on the index of the 1.0
\* entry of the 10-entry target vector.
C22_DigitIndexesTarget ==
    /\ (ret.opt = "Some" /\ ret.ok) => ret.digit \in 0 .. 9
    /\ launch.at # "expected_output"

\* C23: in training mode, whenever launch returns after the dataset was
\* constructed, its last step was the attempt to save the network and it
\* returns Ok(()), whether the save succeeded or failed.
C23_SaveErrorDropped ==
    (launch.pc = "returned" /\ result.tag = "Ok") =>
        (call.op = "save" /\ launch.ret = "Ok(())")
C23_Witness ==
    /\ launch.pc = "returned"
    /\ result.tag = "Ok"
    /\ call.op = "save"
    /\ ~call.ok
    /\ call.err = "CannotSaveNeuralNetwork"
    /\ launch.trains = MaxCount
    /\ launch.ret = "Ok(())"

\* C24: the closure returns the index of the largest entry of the 10-entry
\* output and that entry's value, the smallest index when several entries
\* are the largest, and a digit within 0..9.
IsArgMax(output, digit, chance) ==
    /\ digit \in 0 .. 9
    /\ chance = output[digit + 1]
    /\ \A k \in 1 .. Len(output) : ~gt(output[k], chance)
    /\ \A k \in 1 .. digit : output[k] # chance
C24_ArgMax ==
    call.op = "submit" => IsArgMax(call.output, call.digit, call.chance)

\* C24, amended: the digit is within 0..9 for every output, and for an
\* output without NaN the closure returns the smallest index of the largest
\* entry and that entry's value.
C24_ArgMaxOfNumbers ==
    call.op = "submit" =>
        /\ call.digit \in 0 .. 9
        /\ (\A k \in 1 .. Len(call.output) : ~is_nan(call.output[k]))
              => IsArgMax(call.output, call.digit, call.chance)
C24_Witness ==
    /\ call.op = "submit"
    /\ call.output[4] = 300
    /\ call.output[8] = 300
    /\ call.digit = 3
    /\ call.chance = 300


=============================================================================
